---- MODULE Spec2Model ----
(***************************************************************************)
(* Model of the transportation telemetry backend:                          *)
(*   db.py        - schema, sensor_readings validator, init_db bootstrap   *)
(*   main.py      - get_session, create_infrastructure, create_sensor_data *)
(*   simulator.py - TransportSensorSimulator (synthetic generator)         *)
(***************************************************************************)
EXTENDS Integers, FiniteSets, Sequences, TLC

\* Python's None (Optional[...] fields of string type, dict.get misses).
None == "None"

(***************************************************************************)
(* db.py : SensorData.validate_sensor_readings                             *)
(***************************************************************************)

\* A readings mapping is a function from key strings to values; only the
\* keys matter to the validator.  Result of the validator: either the
\* mapping itself (status "ok") or a ValueError carrying the device type
\* and the missing keys.
validate_sensor_readings_bad(device_type, v) ==
    IF device_type \in {"road", "bridge", "tunnel", "traffic_signal", "streetlight"}
    THEN LET required_fields ==
                 CASE device_type = "road" ->
                          {"traffic_flow", "surface_moisture", "surface_condition"}
                   [] device_type = "bridge" ->
                          {"structural_stress", "vibration", "weight_load"}
                   [] device_type = "tunnel" ->
                          {"air_quality", "visibility", "ventilation_status"}
                   [] device_type = "traffic_signal" ->
                          {"signal_status", "queue_length", "wait_time"}
                   [] device_type = "streetlight" ->
                          {"light_status", "light_intensity"}
             missing_fields == required_fields \ DOMAIN v
         IN  IF missing_fields # {}
             THEN [status |-> "ValueError", value |-> v,
                   device_type |-> device_type, missing_fields |-> missing_fields]
             ELSE [status |-> "ok", value |-> v,
                   device_type |-> device_type, missing_fields |-> {}]
    ELSE [status |-> "ok", value |-> v,
          device_type |-> device_type, missing_fields |-> {}]

validate_sensor_readings(device_type, v) ==
    IF device_type \in {"road", "bridge", "tunnel", "traffic_signal", "streetlight"}
    THEN LET required_fields ==
                 CASE device_type = "road" ->
                          {"traffic_flow", "surface_moisture", "surface_condition"}
                   [] device_type = "bridge" ->
                          {"structural_stress", "vibration", "weight_load"}
                   [] device_type = "tunnel" ->
                          {"air_quality", "visibility", "ventilation_status"}
                   [] device_type = "traffic_signal" ->
                          {"signal_status", "queue_length", "wait_time"}
                   [] device_type = "streetlight" ->
                          {"light_status", "light_intensity", "power_consumption"}
             missing_fields == required_fields \ DOMAIN v
         IN  IF missing_fields # {}
             THEN [status |-> "ValueError", value |-> v,
                   device_type |-> device_type, missing_fields |-> missing_fields]
             ELSE [status |-> "ok", value |-> v,
                   device_type |-> device_type, missing_fields |-> {}]
    ELSE [status |-> "ok", value |-> v,
          device_type |-> device_type, missing_fields |-> {}]

(***************************************************************************)
(* Inputs of the validator specification                                   *)
(***************************************************************************)

\* Device types the validator is applied to: the five table types, two
\* types outside the table, and no type at all.
ValDeviceTypes ==
    {"road", "bridge", "tunnel", "traffic_signal", "streetlight",
     "highway", "unknown_type", None}

\* Key groups from which candidate readings mappings are drawn: each group
\* is the key set one device reports plus one key no type requires.
ValKeyGroups ==
    { {"traffic_flow", "surface_moisture", "surface_condition", "average_speed"},
      {"structural_stress", "vibration", "weight_load", "average_speed"},
      {"air_quality", "visibility", "ventilation_status", "average_speed"},
      {"signal_status", "queue_length", "wait_time", "average_speed"},
      {"light_status", "light_intensity", "power_consumption", "average_speed"} }

ValKeySets == UNION { SUBSET g : g \in ValKeyGroups }

ValMappings == { [k \in ks |-> 1] : ks \in ValKeySets }

NoResult == [status |-> "none", value |-> [k \in {} |-> 1],
             device_type |-> None, missing_fields |-> {}]

VARIABLES
    vType,      \* validator: device_type argument
    vInput,     \* validator: readings mapping argument
    vOut        \* validator: result of the last application, or NoResult

valVars == <<vType, vInput, vOut>>

ValInit ==
    /\ vType \in ValDeviceTypes
    /\ vInput \in ValMappings
    /\ vOut = NoResult

\* Apply the validator to the current arguments.
ValApply ==
    /\ vOut = NoResult
    /\ vOut' = validate_sensor_readings(vType, vInput)
    /\ UNCHANGED <<vType, vInput>>

\* Draw fresh arguments for the next application.
ValNewInput ==
    /\ vOut # NoResult
    /\ vType' \in ValDeviceTypes
    /\ vInput' \in ValMappings
    /\ vOut' = NoResult


(***************************************************************************)
(* main.py / db.py : the ingestion API over the two tables                 *)
(***************************************************************************)

\* An empty dict / JSON object.
EmptyDict == [k \in {} |-> 1]

\* Restriction of a mapping to a set of keys (a JSON body with keys left out).
Restrict(f, S) == [k \in S |-> f[k]]

\* dict.get(key): the value, or None when the key is absent.
DictGet(d, key) == IF key \in DOMAIN d THEN d[key] ELSE None

MaxConc == 2        \* concurrent API invocations (request slots)
MaxRequests == 3    \* API invocations over a run

Slots == 1..MaxConc

\* Simulated assets: one of a type in the required-key table, one of a
\* type outside it (simulator.py:40-50, 150-155).
Assets ==
    { [device_id |-> "ROAD_001", device_type |-> "road"],
      [device_id |-> "HIGHWAY_001", device_type |-> "highway"] }

DeviceIds == { a.device_id : a \in Assets }

\* Fields of InfrastructureBase (db.py:8-15).
InfraFields ==
    {"device_id", "device_type", "location_lat", "location_lon", "name",
     "description", "mdata"}
InfraRequired ==
    {"device_id", "device_type", "location_lat", "location_lon", "name"}

\* Complete asset bodies, after example_infrastructure (main.py:42-54);
\* coordinates in 1e-4 degrees.
FullInfraBodies ==
    { [device_id |-> a.device_id, device_type |-> a.device_type,
       location_lat |-> 407128, location_lon |-> -740060,
       name |-> "Main Street Sensor",
       description |-> "Primary road sensor for downtown area",
       mdata |-> [manufacturer |-> "SensorCorp"]] : a \in Assets }

\* Submitted asset bodies: the road complete and without the required
\* name, the highway without the two optional fields.
InfraBodies ==
    { Restrict(b, InfraFields \ o) :
        b \in { f \in FullInfraBodies : f.device_type = "road" },
        o \in { {}, {"name"} } }
    \cup { Restrict(b, InfraFields \ {"description", "mdata"}) :
              b \in { f \in FullInfraBodies : f.device_type # "road" } }

\* Fields of SensorDataBase (db.py:33-49).
SensorFields ==
    {"device_id", "timestamp", "temperature", "operational_status",
     "weather_condition", "sensor_readings"}

\* Readings mappings submitted to the API, after example_sensor_data
\* (main.py:62-67): the road example, and the road example cut down to
\* one key.
RoadReadings ==
    [traffic_flow |-> 1500, surface_moisture |-> 15,
     surface_condition |-> "dry", average_speed |-> 655]
ApiReadings ==
    { RoadReadings, Restrict(RoadReadings, {"traffic_flow"}) }

\* Optional[float] values: << >> is None, <<x>> is the float x (in tenths).
FullSensorBodies ==
    [device_id : DeviceIds, timestamp : {0},
     temperature : {<<255>>}, operational_status : {"active"},
     weather_condition : {"clear"}, sensor_readings : ApiReadings]

\* Submitted reading bodies: complete ones with the full road mapping, one
\* for the road that gives only device_id and an incomplete readings
\* mapping, and one without device_id.
SensorBodies ==
    { f \in FullSensorBodies : f.sensor_readings = RoadReadings }
    \cup { Restrict(b, {"device_id", "sensor_readings"}) :
              b \in { f \in FullSensorBodies :
                         f.device_id = "ROAD_001" /\ f.sensor_readings # RoadReadings } }
    \cup { Restrict(b, SensorFields \ {"device_id"}) :
              b \in { f \in FullSensorBodies :
                         f.device_id = "ROAD_001" /\ f.sensor_readings = RoadReadings } }

\* FastAPI builds the InfrastructureBase argument from the request body:
\* the five fields without default are required (db.py:9-13), description
\* defaults to None and mdata to {} (db.py:14-15).
ParseInfrastructureBase(body) ==
    IF InfraRequired \subseteq DOMAIN body
    THEN [status |-> "ok",
          model |-> [device_id |-> body.device_id,
                     device_type |-> body.device_type,
                     location_lat |-> body.location_lat,
                     location_lon |-> body.location_lon,
                     name |-> body.name,
                     description |-> DictGet(body, "description"),
                     mdata |-> IF "mdata" \in DOMAIN body THEN body.mdata
                                                         ELSE EmptyDict]]
    ELSE [status |-> "RequestValidationError", model |-> EmptyDict]

\* FastAPI builds the SensorDataBase argument: device_id is required
\* (db.py:34), timestamp defaults to utcnow() (db.py:35-38), the common
\* metrics to None (db.py:41-43) and sensor_readings to {} (db.py:46-49).
ParseSensorDataBase(body, utcnow) ==
    IF "device_id" \in DOMAIN body
    THEN [status |-> "ok",
          model |-> [device_id |-> body.device_id,
                     timestamp |-> IF "timestamp" \in DOMAIN body
                                   THEN body.timestamp ELSE utcnow,
                     temperature |-> IF "temperature" \in DOMAIN body
                                     THEN body.temperature ELSE << >>,
                     operational_status |-> DictGet(body, "operational_status"),
                     weather_condition |-> DictGet(body, "weather_condition"),
                     sensor_readings |-> IF "sensor_readings" \in DOMAIN body
                                         THEN body.sensor_readings
                                         ELSE EmptyDict]]
    ELSE [status |-> "RequestValidationError", model |-> EmptyDict]

\* Row written by the INSERT of an Infrastructure object: the generated
\* primary key and both timestamp columns, which take the server default
\* CURRENT_TIMESTAMP of the inserting transaction (db.py:19-31).
InfrastructureRow_stale(m, id, current_timestamp) ==
    [id |-> id,
     device_id |-> m.device_id, device_type |-> m.device_type,
     location_lat |-> m.location_lat, location_lon |-> m.location_lon,
     name |-> m.name, description |-> m.description, mdata |-> m.mdata,
     created_at |-> current_timestamp, updated_at |-> current_timestamp + 1]

InfrastructureRow(m, id, current_timestamp) ==
    [id |-> id,
     device_id |-> m.device_id, device_type |-> m.device_type,
     location_lat |-> m.location_lat, location_lon |-> m.location_lon,
     name |-> m.name, description |-> m.description, mdata |-> m.mdata,
     created_at |-> current_timestamp, updated_at |-> current_timestamp]

\* Row written by the INSERT of a SensorData object (db.py:33-53).
SensorDataRow(m, id) ==
    [id |-> id,
     device_id |-> m.device_id, timestamp |-> m.timestamp,
     temperature |-> m.temperature,
     operational_status |-> m.operational_status,
     weather_condition |-> m.weather_condition,
     sensor_readings |-> m.sensor_readings]

\* The foreign key sensor_data.device_id -> infrastructure.device_id
\* (db.py:34), checked by the store when a sensor_data row is inserted.
ForeignKeyHolds_off(infra, device_id) == TRUE

ForeignKeyHolds(infra, device_id) ==
    \E k \in 1..Len(infra) : infra[k].device_id = device_id

\* SensorData.from_orm(sensor_data) runs the sensor_readings validator
\* (db.py:55-57).  Its second argument holds the fields of the object
\* validated before sensor_readings; the validator reads device_type from
\* it with .get().  has_get = FALSE is the build in which that argument is
\* a validation-info object without a get method, so the call raises
\* AttributeError; has_get = TRUE is the build in which it is a mapping.
\* SensorDataBase has no device_type field, so the mapping never holds one,
\* and the handler never reads the asset the reading refers to.
FromOrmSensorData(m, has_get) ==
    IF ~has_get
    THEN [status |-> "AttributeError", value |-> m.sensor_readings,
          device_type |-> None, missing_fields |-> {}]
    ELSE LET values == Restrict(m, {"device_id", "timestamp", "temperature",
                                    "operational_status", "weather_condition"})
             device_type == DictGet(values, "device_type")
         IN  validate_sensor_readings(device_type, m.sensor_readings)

\* INSERT of a row into infrastructure at commit (main.py:25-26): no
\* constraint of the table can reject it (device_id is indexed, not unique,
\* db.py:9).
InsertInfrastructure_unique(table, row) ==
    IF \E k \in 1..Len(table) : table[k].device_id = row.device_id
    THEN [status |-> "IntegrityError", table |-> table]
    ELSE [status |-> "ok", table |-> Append(table, row)]

InsertInfrastructure(table, row) ==
    [status |-> "ok", table |-> Append(table, row)]

\* INSERT of a row into sensor_data at commit (main.py:36-37): rejected
\* with an IntegrityError, the transaction rolled back, when the foreign
\* key does not hold.
InsertSensorData_dirty(table, infra, row) ==
    IF ForeignKeyHolds(infra, row.device_id)
    THEN [status |-> "ok", table |-> Append(table, row)]
    ELSE [status |-> "IntegrityError", table |-> Append(table, row)]

InsertSensorData(table, infra, row) ==
    IF ForeignKeyHolds(infra, row.device_id)
    THEN [status |-> "ok", table |-> Append(table, row)]
    ELSE [status |-> "IntegrityError", table |-> table]

\* An idle request slot.
IdleReq ==
    [pc |-> "idle", kind |-> "none", body |-> EmptyDict, model |-> EmptyDict,
     session |-> 0, outcome |-> "none", response |-> EmptyDict, commits |-> 0]

VARIABLES
    infrastructure,   \* table "infrastructure": rows in insertion order
    sensor_data,      \* table "sensor_data": rows in insertion order
    infraSeq,         \* next value of infrastructure.id's sequence
    sensorSeq,        \* next value of sensor_data.id's sequence
    now,              \* clock: CURRENT_TIMESTAMP / datetime.utcnow()
    req,              \* per request slot: the API invocation in progress
    openSessions,     \* ids of the Session objects currently open
    sessionSeq,       \* Session objects created so far
    reqCount,         \* API invocations started so far
    infoHasGet        \* the build: whether the validator's second argument
                      \* has a get method (see FromOrmSensorData)

apiVars == <<infrastructure, sensor_data, infraSeq, sensorSeq, now, req,
             openSessions, sessionSeq, reqCount, infoHasGet>>

ApiInit ==
    /\ infrastructure = << >>
    /\ sensor_data = << >>
    /\ infraSeq = 1
    /\ sensorSeq = 1
    /\ now = 0
    /\ req = [i \in Slots |-> IdleReq]
    /\ openSessions = {}
    /\ sessionSeq = 0
    /\ reqCount = 0
    /\ infoHasGet \in BOOLEAN

\* get_session up to its yield (main.py:13-16) and FastAPI's construction
\* of the handler's body argument.  A body that does not validate ends the
\* invocation with a 422 before the handler runs.  Request slots are
\* interchangeable: a new invocation takes the lowest idle one.  The clock
\* is logical: it advances with every arriving request.
Receive(i, kind, body) ==
    /\ req[i].pc = "idle"
    /\ \A j \in Slots : j < i => req[j].pc # "idle"
    /\ reqCount < MaxRequests
    /\ LET s == sessionSeq + 1
           parsed == IF kind = "infrastructure"
                     THEN ParseInfrastructureBase(body)
                     ELSE ParseSensorDataBase(body, now + 1)
       IN  /\ sessionSeq' = s
           /\ openSessions' = openSessions \cup {s}
           /\ req' = [req EXCEPT ![i] =
                        [pc |-> IF parsed.status = "ok" THEN "handler"
                                                        ELSE "responded",
                         kind |-> kind, body |-> body, model |-> parsed.model,
                         session |-> s,
                         outcome |-> IF parsed.status = "ok" THEN "none"
                                                             ELSE parsed.status,
                         response |-> EmptyDict, commits |-> 0]]
    /\ reqCount' = reqCount + 1
    /\ now' = now + 1
    /\ UNCHANGED <<infrastructure, sensor_data, infraSeq, sensorSeq,
                   infoHasGet>>

ReceiveInfrastructure ==
    \E i \in Slots, body \in InfraBodies : Receive(i, "infrastructure", body)

ReceiveSensorData ==
    \E i \in Slots, body \in SensorBodies : Receive(i, "sensor_data", body)

\* create_infrastructure (main.py:19-28): model_validate, add, commit,
\* refresh, return.
create_infrastructure(i) ==
    /\ req[i].pc = "handler"
    /\ req[i].kind = "infrastructure"
    /\ LET row == InfrastructureRow(req[i].model, infraSeq, now)
           ins == InsertInfrastructure(infrastructure, row)
       IN  /\ infrastructure' = ins.table
           /\ infraSeq' = infraSeq + 1
           /\ req' = [req EXCEPT ![i].pc = "responded",
                                 ![i].outcome = ins.status,
                                 ![i].response = IF ins.status = "ok" THEN row
                                                                      ELSE EmptyDict,
                                 ![i].commits = @ + 1]
    /\ UNCHANGED <<sensor_data, sensorSeq, now, openSessions, sessionSeq,
                   reqCount, infoHasGet>>

\* create_sensor_data (main.py:30-39): from_orm, add, commit, refresh,
\* return.  The INSERT draws the next id from the sequence before the
\* foreign key is checked, so a rejected INSERT still advances it.
create_sensor_data(i) ==
    /\ req[i].pc = "handler"
    /\ req[i].kind = "sensor_data"
    /\ LET m == req[i].model
           v == FromOrmSensorData(m, infoHasGet)
           row == SensorDataRow(m, sensorSeq)
           ins == InsertSensorData(sensor_data, infrastructure, row)
       IN  IF v.status # "ok"
           THEN /\ req' = [req EXCEPT ![i].pc = "responded",
                                      ![i].outcome = v.status]
                /\ UNCHANGED <<sensor_data, sensorSeq>>
           ELSE /\ sensor_data' = ins.table
                /\ sensorSeq' = sensorSeq + 1
                /\ req' = [req EXCEPT ![i].pc = "responded",
                                      ![i].outcome = ins.status,
                                      ![i].response = IF ins.status = "ok" THEN row
                                                                           ELSE EmptyDict,
                                      ![i].commits = @ + 1]
    /\ UNCHANGED <<infrastructure, infraSeq, now, openSessions, sessionSeq,
                   reqCount, infoHasGet>>

\* get_session that closes the Session only after a successful handler.
CloseSession_leak(i) ==
    /\ req[i].pc = "responded"
    /\ openSessions' = IF req[i].outcome = "ok"
                       THEN openSessions \ {req[i].session}
                       ELSE openSessions
    /\ req' = [req EXCEPT ![i] = IdleReq]
    /\ UNCHANGED <<infrastructure, sensor_data, infraSeq, sensorSeq, now,
                   sessionSeq, reqCount, infoHasGet>>

\* get_session after its yield (main.py:15-16): leaving the with block
\* closes the Session, whatever the handler's outcome; the invocation is over.
CloseSession(i) ==
    /\ req[i].pc = "responded"
    /\ openSessions' = openSessions \ {req[i].session}
    /\ req' = [req EXCEPT ![i] = IdleReq]
    /\ UNCHANGED <<infrastructure, sensor_data, infraSeq, sensorSeq, now,
                   sessionSeq, reqCount, infoHasGet>>

CreateInfrastructure == \E i \in Slots : create_infrastructure(i)
CreateSensorData == \E i \in Slots : create_sensor_data(i)
Complete == \E i \in Slots : CloseSession(i)

(***************************************************************************)
(* simulator.py : TransportSensorSimulator                                 *)
(***************************************************************************)

GridSteps == 3      \* random.uniform is sampled at GridSteps + 1 points
MaxTicks == 3       \* iterations after which an unbounded run is cut off

\* {**f, **g}: the union of two dicts, g's entries winning.
Merge(f, g) ==
    [k \in DOMAIN f \cup DOMAIN g |-> IF k \in DOMAIN g THEN g[k] ELSE f[k]]

\* base_sensors (simulator.py:32-37).  A numeric sensor has min, max, unit;
\* a categorical one has conditions, unit.
base_sensors ==
    [traffic_flow |-> [min |-> 0, max |-> 2000, unit |-> "vehicles/hour"],
     average_speed |-> [min |-> 0, max |-> 120, unit |-> "km/h"],
     weather |-> [conditions |-> <<"clear", "rain", "snow", "fog">>,
                  unit |-> None],
     temperature |-> [min |-> -20, max |-> 50, unit |-> "C"]]

\* infrastructure_specific_sensors (simulator.py:39-75).
infrastructure_specific_sensors ==
    [road |->
       [surface_temperature |-> [min |-> -20, max |-> 60, unit |-> "C"],
        surface_moisture |-> [min |-> 0, max |-> 100, unit |-> "%"],
        surface_condition |->
            [conditions |-> <<"dry", "wet", "icy", "snow_covered">>,
             unit |-> None]],
     highway |->
       [surface_temperature |-> [min |-> -20, max |-> 60, unit |-> "C"],
        surface_moisture |-> [min |-> 0, max |-> 100, unit |-> "%"],
        weight_load |-> [min |-> 0, max |-> 50000, unit |-> "kg"],
        emergency_lane_status |->
            [conditions |-> <<"clear", "occupied">>, unit |-> None]],
     tunnel |->
       [air_quality |-> [min |-> 0, max |-> 500, unit |-> "ppm"],
        visibility |-> [min |-> 0, max |-> 100, unit |-> "%"],
        ventilation_status |->
            [conditions |-> <<"off", "low", "medium", "high">>, unit |-> None],
        emergency_lighting |->
            [conditions |-> <<"off", "on">>, unit |-> None]],
     bridge |->
       [structural_stress |-> [min |-> 0, max |-> 100, unit |-> "MPa"],
        vibration |-> [min |-> 0, max |-> 50, unit |-> "Hz"],
        expansion_joint_status |-> [min |-> 0, max |-> 100, unit |-> "%"],
        weight_load |-> [min |-> 0, max |-> 100000, unit |-> "kg"]],
     traffic_signal |->
       [signal_status |->
            [conditions |-> <<"red", "yellow", "green">>, unit |-> None],
        queue_length |-> [min |-> 0, max |-> 50, unit |-> "vehicles"],
        wait_time |-> [min |-> 0, max |-> 120, unit |-> "seconds"],
        operational_status |->
            [conditions |-> <<"normal", "flashing", "off">>, unit |-> None]],
     streetlight |->
       [light_status |->
            [conditions |-> <<"off", "on", "dimmed">>, unit |-> None],
        light_intensity |-> [min |-> 0, max |-> 100, unit |-> "%"],
        power_consumption |-> [min |-> 0, max |-> 400, unit |-> "W"],
        bulb_health |-> [min |-> 0, max |-> 100, unit |-> "%"]]]

\* _initialize_sensors (simulator.py:30-78).
initialize_sensors(infrastructure_type) ==
    Merge(base_sensors,
          IF infrastructure_type \in DOMAIN infrastructure_specific_sensors
          THEN infrastructure_specific_sensors[infrastructure_type]
          ELSE EmptyDict)

\* Numbers of the generator are fixed-point: draws in thousandths, rounded
\* readings in hundredths.
\* random.uniform(lo, hi) at sample point u of 0..GridSteps (thousandths).
Uniform(lo, hi, u) == lo + (u * (hi - lo)) \div GridSteps

\* round(x, 2): thousandths to hundredths, ties to the even neighbour.
Round2(x) ==
    LET q == x \div 10
        r == x % 10
    IN  IF r < 5 THEN q
        ELSE IF r > 5 THEN q + 1
        ELSE IF q % 2 = 0 THEN q ELSE q + 1

\* random.choice(seq) at draw c.
Choice(seq, c) == seq[(c % Len(seq)) + 1]

\* Outcomes of the random module for a reading: the sample points of the
\* two uniform draws and the draw of choice.
Draws ==
    { [base |-> b, noise |-> n, pick |-> b + n] :
        b \in 0..GridSteps, n \in 0..GridSteps }

\* generate_sensor_reading with a ten percent noise amplitude.
generate_sensor_reading_wide(sensor_name, sensor_config, d) ==
    IF "conditions" \in DOMAIN sensor_config
    THEN Choice(sensor_config.conditions, d.pick)
    ELSE LET base_value == Uniform(1000 * sensor_config.min,
                                   1000 * sensor_config.max, d.base)
             noise == Uniform(-100 * (sensor_config.max - sensor_config.min),
                              100 * (sensor_config.max - sensor_config.min),
                              d.noise)
         IN  Round2(base_value + noise)

\* generate_sensor_reading (simulator.py:80-88); 0.05 * range is
\* 50 * range in thousandths.
generate_sensor_reading(sensor_name, sensor_config, d) ==
    IF "conditions" \in DOMAIN sensor_config
    THEN Choice(sensor_config.conditions, d.pick)
    ELSE LET base_value == Uniform(1000 * sensor_config.min,
                                   1000 * sensor_config.max, d.base)
             noise == Uniform(-50 * (sensor_config.max - sensor_config.min),
                              50 * (sensor_config.max - sensor_config.min),
                              d.noise)
         IN  Round2(base_value + noise)

\* generate_payload (simulator.py:90-106).
generate_payload(sim, utcnow, d) ==
    [infrastructure_id |-> sim.infrastructure_id,
     infrastructure_type |-> sim.infrastructure_type,
     location |-> sim.location,
     timestamp |-> utcnow,
     readings |->
        [sensor_name \in DOMAIN sim.sensors |->
            [value |-> generate_sensor_reading(sensor_name,
                                               sim.sensors[sensor_name], d),
             unit |-> sim.sensors[sensor_name].unit]]]

\* Simulated infrastructure types: the six configured ones and one with no
\* specific sensors.
SimTypes ==
    {"road", "highway", "tunnel", "bridge", "traffic_signal", "streetlight",
     "unknown_type"}

\* TransportSensorSimulator.__init__ (simulator.py:21-28).
Simulator(infrastructure_type) ==
    [infrastructure_id |-> "SIM_001",
     infrastructure_type |-> infrastructure_type,
     location |-> [lat |-> 407128, lng |-> -740060],
     server_url |-> "http://localhost:8000/api/data",
     sensors |-> initialize_sensors(infrastructure_type)]

\* Outcomes of requests.post: a 200 response, another response, or a
\* RequestException.
PostOutcomes == {"200", "500", "RequestException"}

Interval == 5       \* run(interval=5) (simulator.py:125)
Durations == {0, 6} \* run(duration=None) and run(duration=6) (simulator.py:182)

NoPayload == EmptyDict

VARIABLES
    sim,         \* the simulator object
    gPc,         \* position in run(): "send", "check", "sleep" or "done"
    duration,    \* run's duration argument, 0 for None
    iteration,   \* run's iteration counter
    clock,       \* time.time() - start_time, in seconds
    payload,     \* payload built by the latest generate_payload call
    posted,      \* body of the latest requests.post call
    postCount,   \* requests.post calls so far
    genCount,    \* generate_payload calls so far
    sendResults  \* return values of the send_data calls so far

genVars == <<sim, gPc, duration, iteration, clock, payload, posted,
             postCount, genCount, sendResults>>

GenInit ==
    /\ sim \in { Simulator(t) : t \in SimTypes }
    /\ gPc = "send"
    /\ duration \in Durations
    /\ iteration = 1
    /\ clock = 0
    /\ payload = NoPayload
    /\ posted = NoPayload
    /\ postCount = 0
    /\ genCount = 0
    /\ sendResults = << >>

\* send_data that, after a failed send, posts the previous payload again.
send_data_retry(d, outcome) ==
    /\ gPc = "send"
    /\ LET retry == sendResults # << >> /\ ~sendResults[Len(sendResults)]
           p == IF retry THEN payload ELSE generate_payload(sim, clock, d)
       IN  /\ payload' = p
           /\ posted' = p
           /\ genCount' = IF retry THEN genCount ELSE genCount + 1
    /\ postCount' = postCount + 1
    /\ sendResults' = Append(sendResults, outcome = "200")
    /\ gPc' = "check"
    /\ UNCHANGED <<sim, duration, iteration, clock>>

\* send_data (simulator.py:108-123), called from run (simulator.py:134):
\* build a payload, post it, return whether the response was a 200; a
\* RequestException is caught and gives False.
send_data(d, outcome) ==
    /\ gPc = "send"
    /\ LET p == generate_payload(sim, clock, d)
       IN  /\ payload' = p
           /\ posted' = p
    /\ genCount' = genCount + 1
    /\ postCount' = postCount + 1
    /\ sendResults' = Append(sendResults, outcome = "200")
    /\ gPc' = "check"
    /\ UNCHANGED <<sim, duration, iteration, clock>>

SendData == \E d \in Draws, outcome \in PostOutcomes : send_data(d, outcome)

\* run, after send_data returned (simulator.py:135-141): leave the loop
\* when a bounded duration has elapsed, else count the iteration.
LoopCheck ==
    /\ gPc = "check"
    /\ IF duration # 0 /\ clock >= duration
       THEN gPc' = "done" /\ UNCHANGED iteration
       ELSE /\ iteration < MaxTicks
            /\ gPc' = "sleep"
            /\ iteration' = iteration + 1
    /\ UNCHANGED <<sim, duration, clock, payload, posted, postCount,
                   genCount, sendResults>>

\* time.sleep(interval) (simulator.py:142).
Sleep ==
    /\ gPc = "sleep"
    /\ clock' = clock + Interval
    /\ gPc' = "send"
    /\ UNCHANGED <<sim, duration, iteration, payload, posted, postCount,
                   genCount, sendResults>>

(***************************************************************************)
(* db.py : init_db                                                         *)
(***************************************************************************)

MaxPriorRows == 1   \* rows a table may hold before a bootstrap run
MaxRuns == 2        \* bootstrap runs over a behaviour

\* The tables of SQLModel.metadata (db.py:18, 52).
MetadataTables == {"infrastructure", "sensor_data"}

\* Indexes the column declarations give each table (index=True,
\* db.py:9-10, 34-36); create_all creates them with the table.
DeclaredIndexes ==
    [infrastructure |-> {"ix_infrastructure_device_id",
                         "ix_infrastructure_device_type"},
     sensor_data |-> {"ix_sensor_data_device_id", "ix_sensor_data_timestamp"}]

\* Indexes init_db creates by hand on sensor_data (db.py:102-110).
ExtraIndexes == {"idx_sensor_data_device_time", "idx_sensor_readings"}

IndexTable(ix) ==
    IF ix \in DeclaredIndexes["infrastructure"] THEN "infrastructure"
                                                ELSE "sensor_data"

\* A database: the tables that exist, the number of rows of each, the
\* hypertables with their partitioning column and chunk interval (days),
\* and the indexes.
NoHypertable == [column |-> None, chunk_days |-> 0]

EmptyDb ==
    [tables |-> {}, rows |-> [t \in MetadataTables |-> 0],
     hypertable |-> NoHypertable, indexes |-> {}]

\* SQLModel.metadata.drop_all(engine) (db.py:86): drops every table of the
\* metadata that exists, and with it its rows, indexes and hypertable.
DropAll(db) ==
    [tables |-> db.tables \ MetadataTables,
     rows |-> [t \in MetadataTables |-> 0],
     hypertable |-> NoHypertable,
     indexes |-> { ix \in db.indexes : IndexTable(ix) \notin MetadataTables }]

\* SQLModel.metadata.create_all(engine) (db.py:89): creates every table of
\* the metadata that does not exist, empty, with its declared indexes.
CreateAll(db) ==
    LET missing == MetadataTables \ db.tables
    IN  [db EXCEPT !.tables = @ \cup missing,
                   !.rows = [t \in MetadataTables |->
                                IF t \in missing THEN 0 ELSE @[t]],
                   !.indexes = @ \cup UNION { DeclaredIndexes[t] : t \in missing }]

\* SELECT create_hypertable('sensor_data', 'timestamp', if_not_exists =>
\* TRUE, chunk_time_interval => INTERVAL '1 day') (db.py:94-99).
CreateHypertable(db) ==
    IF db.hypertable # NoHypertable THEN db
    ELSE [db EXCEPT !.hypertable = [column |-> "timestamp", chunk_days |-> 1]]

\* CREATE INDEX IF NOT EXISTS ix ON sensor_data ... (db.py:102-110).
CreateIndexIfNotExists(db, ix) == [db EXCEPT !.indexes = @ \cup {ix}]

\* Leaving "with engine.connect() as connection" (db.py:92-114) closes the
\* connection.  init_db never calls connection.commit(), so the statements
\* executed on the connection are still in its open transaction, which the
\* close rolls back: the database is left as committed before the block.
ConnectionClose(committed, in_transaction) == committed

\* Steps of init_db at which the database may raise.
BootSteps ==
    {"drop_all", "create_all", "create_hypertable",
     "idx_sensor_data_device_time", "idx_sensor_readings"}

\* init_db (db.py:82-114).  fail_at names the step at which the database
\* raises, "none" when no step does.  drop_all and create_all each run and
\* commit in a transaction of their own; the three statements of the with
\* block run on one connection.
init_db_result(db, fail_at) ==
    LET dropped == DropAll(db)
        created == CreateAll(dropped)
        hyper == CreateHypertable(created)
        index1 == CreateIndexIfNotExists(hyper, "idx_sensor_data_device_time")
        index2 == CreateIndexIfNotExists(index1, "idx_sensor_readings")
    IN  CASE fail_at = "drop_all" -> db
          [] fail_at = "create_all" -> dropped
          [] fail_at = "create_hypertable" -> ConnectionClose(created, created)
          [] fail_at = "idx_sensor_data_device_time" ->
                 ConnectionClose(created, hyper)
          [] fail_at = "idx_sensor_readings" -> ConnectionClose(created, index1)
          [] OTHER -> ConnectionClose(created, index2)

\* Databases a bootstrap run may find: any subset of the tables with their
\* declared indexes, with or without rows, sensor_data a hypertable or not,
\* with any of the hand-made indexes.
PriorDbs ==
    { [tables |-> ts,
       rows |-> [t \in MetadataTables |-> IF t \in ts THEN n ELSE 0],
       hypertable |-> h,
       indexes |-> UNION { DeclaredIndexes[t] : t \in ts } \cup ixs] :
        ts \in SUBSET MetadataTables, n \in 0..MaxPriorRows,
        h \in {NoHypertable, [column |-> "timestamp", chunk_days |-> 1]},
        ixs \in SUBSET ExtraIndexes }

VARIABLES
    db,          \* the database init_db runs against
    bootStatus,  \* outcome of the latest init_db run: "none", "ok", or the
                 \* step that raised
    bootRuns     \* init_db runs so far

bootVars == <<db, bootStatus, bootRuns>>

WellFormedDb(d) ==
    /\ (d.hypertable # NoHypertable => "sensor_data" \in d.tables)
    /\ \A ix \in d.indexes : IndexTable(ix) \in d.tables

BootInit ==
    /\ db \in { d \in PriorDbs : WellFormedDb(d) }
    /\ bootStatus = "none"
    /\ bootRuns = 0

\* One run of init_db.
InitDb(fail_at) ==
    /\ bootRuns < MaxRuns
    /\ db' = init_db_result(db, fail_at)
    /\ bootStatus' = IF fail_at = "none" THEN "ok" ELSE fail_at
    /\ bootRuns' = bootRuns + 1

RunInitDb == InitDb("none")

RunInitDbFailing == \E fail_at \in BootSteps : InitDb(fail_at)

\* The application stores a row in an existing table between bootstrap runs.
StoreRow ==
    /\ \E t \in db.tables :
         /\ db.rows[t] < MaxPriorRows
         /\ db' = [db EXCEPT !.rows[t] = @ + 1]
    /\ bootStatus' = "none"
    /\ UNCHANGED bootRuns

(***************************************************************************)
(* Specifications                                                          *)
(***************************************************************************)

vars == <<valVars, apiVars, genVars, bootVars>>

ValIdle == vType = None /\ vInput = EmptyDict /\ vOut = NoResult

ApiIdle == ApiInit /\ infoHasGet = TRUE

GenIdle == GenInit /\ sim = Simulator("road") /\ duration = 0

BootIdle == BootInit /\ db = EmptyDb

\* The ingestion API.
Init == ApiInit /\ ValIdle /\ GenIdle /\ BootIdle

Next ==
    \/ ReceiveInfrastructure /\ UNCHANGED <<valVars, genVars, bootVars>>
    \/ ReceiveSensorData /\ UNCHANGED <<valVars, genVars, bootVars>>
    \/ CreateInfrastructure /\ UNCHANGED <<valVars, genVars, bootVars>>
    \/ CreateSensorData /\ UNCHANGED <<valVars, genVars, bootVars>>
    \/ Complete /\ UNCHANGED <<valVars, genVars, bootVars>>

Spec == Init /\ [][Next]_vars

\* The field-requirement validator applied to drawn arguments.
InitVal == ValInit /\ ApiIdle /\ GenIdle /\ BootIdle

NextVal ==
    \/ ValApply /\ UNCHANGED <<apiVars, genVars, bootVars>>
    \/ ValNewInput /\ UNCHANGED <<apiVars, genVars, bootVars>>

SpecVal == InitVal /\ [][NextVal]_vars

\* The synthetic generator's run loop.
InitGen == GenInit /\ ValIdle /\ ApiIdle /\ BootIdle

NextGen ==
    \/ SendData /\ UNCHANGED <<valVars, apiVars, bootVars>>
    \/ LoopCheck /\ UNCHANGED <<valVars, apiVars, bootVars>>
    \/ Sleep /\ UNCHANGED <<valVars, apiVars, bootVars>>

SpecGen == InitGen /\ [][NextGen]_vars

\* The storage bootstrap.
InitBoot == BootInit /\ ValIdle /\ ApiIdle /\ GenIdle

NextBoot ==
    \/ RunInitDb /\ UNCHANGED <<valVars, apiVars, genVars>>
    \/ RunInitDbFailing /\ UNCHANGED <<valVars, apiVars, genVars>>
    \/ StoreRow /\ UNCHANGED <<valVars, apiVars, genVars>>

SpecBoot == InitBoot /\ [][NextBoot]_vars

(***************************************************************************)
(* Properties                                                              *)
(***************************************************************************)

\* The required-key table of the field-requirement validator, as specified.
RequiredKeyTable(device_type) ==
    CASE device_type = "road" ->
             {"traffic_flow", "surface_moisture", "surface_condition"}
      [] device_type = "bridge" ->
             {"structural_stress", "vibration", "weight_load"}
      [] device_type = "tunnel" ->
             {"air_quality", "visibility", "ventilation_status"}
      [] device_type = "traffic_signal" ->
             {"signal_status", "queue_length", "wait_time"}
      [] device_type = "streetlight" ->
             {"light_status", "light_intensity", "power_consumption"}
      [] OTHER -> {}

ActiveSlots == { i \in Slots : req[i].pc # "idle" }

\* Slot i's handler runs in this step.
HandlerStep(i) == req[i].pc = "handler" /\ req'[i].pc = "responded"

\* C1: every stored reading whose asset has a device type of the
\* required-key table holds all required keys of that type in
\* sensor_readings.
C1_StoredReadingsHaveRequiredKeys ==
    \A k \in 1..Len(sensor_data) : \A j \in 1..Len(infrastructure) :
        infrastructure[j].device_id = sensor_data[k].device_id
        => RequiredKeyTable(infrastructure[j].device_type)
               \subseteq DOMAIN sensor_data[k].sensor_readings

\* C2: the validator accepts and returns the mapping unchanged exactly when
\* all required keys of the device type are present (extra keys allowed, no
\* keys required for a type outside the table or for no type); otherwise
\* it fails naming the device type and exactly the absent required keys.
C2_ValidatorContract ==
    vOut.status # "none" =>
        LET missing == RequiredKeyTable(vType) \ DOMAIN vInput
        IN  IF missing = {}
            THEN vOut.status = "ok" /\ vOut.value = vInput
            ELSE /\ vOut.status = "ValueError"
                 /\ vOut.device_type = vType
                 /\ vOut.missing_fields = missing

\* C2 case: a road mapping with one required key removed is rejected
\* naming exactly that key.
C2_Witness ==
    /\ vType = "road"
    /\ DOMAIN vInput = {"traffic_flow", "surface_condition", "average_speed"}
    /\ vOut.status = "ValueError"
    /\ vOut.missing_fields = {"surface_moisture"}

\* C3: every stored reading refers to an asset that was stored before it;
\* stored assets never disappear; a create_sensor_data for a device_id with
\* no asset fails (with the store's referential error when the payload
\* got as far as the store) and stores nothing.
C3_Step ==
    /\ \A k \in 1..Len(sensor_data') : \E j \in 1..Len(infrastructure') :
           infrastructure'[j].device_id = sensor_data'[k].device_id
    /\ \A k \in (Len(sensor_data) + 1)..Len(sensor_data') :
           \E j \in 1..Len(infrastructure) :
               infrastructure[j].device_id = sensor_data'[k].device_id
    /\ Len(infrastructure') >= Len(infrastructure)
    /\ \A j \in 1..Len(infrastructure) : infrastructure'[j] = infrastructure[j]
    /\ \A i \in Slots :
           ( /\ HandlerStep(i)
             /\ req[i].kind = "sensor_data"
             /\ \A j \in 1..Len(infrastructure) :
                    infrastructure[j].device_id # req[i].model.device_id )
           => /\ req'[i].outcome =
                     IF infoHasGet THEN "IntegrityError" ELSE "AttributeError"
              /\ sensor_data' = sensor_data

C4_AssetRoundTrip ==
    \A i \in Slots :
        (req[i].kind = "infrastructure" /\ req[i].outcome = "ok") =>
            LET b == req[i].body
                r == req[i].response
            IN  /\ \E k \in 1..Len(infrastructure) : infrastructure[k] = r
                /\ r.device_id = b.device_id
                /\ r.device_type = b.device_type
                /\ r.location_lat = b.location_lat
                /\ r.location_lon = b.location_lon
                /\ r.name = b.name
                /\ "description" \in DOMAIN b => r.description = b.description
                /\ "mdata" \in DOMAIN b => r.mdata = b.mdata
                /\ r.id \in Nat /\ r.id >= 1
                /\ r.created_at \in Nat
                /\ r.updated_at = r.created_at

\* C4 case: an asset with description and metadata has been created and
\* returned.
C4_Witness ==
    \E i \in Slots :
        /\ req[i].kind = "infrastructure"
        /\ req[i].outcome = "ok"
        /\ "mdata" \in DOMAIN req[i].body
        /\ req[i].response.mdata = [manufacturer |-> "SensorCorp"]

\* C5: every step leaves the stored rows of both tables in place and adds
\* at most one row; a successful create adds exactly one row, the returned
\* one, with an id no row of its table had; createInfrastructure succeeds
\* whatever is stored (also for a device_id already present), and a
\* createSensorReading whose payload equals a stored reading succeeds again.
C5_Step ==
    /\ Len(infrastructure') >= Len(infrastructure)
    /\ Len(sensor_data') >= Len(sensor_data)
    /\ \A k \in 1..Len(infrastructure) : infrastructure'[k] = infrastructure[k]
    /\ \A k \in 1..Len(sensor_data) : sensor_data'[k] = sensor_data[k]
    /\ Len(infrastructure') + Len(sensor_data')
           <= Len(infrastructure) + Len(sensor_data) + 1
    /\ \A k \in (Len(infrastructure) + 1)..Len(infrastructure') :
           \A j \in 1..Len(infrastructure) :
               infrastructure'[k].id # infrastructure[j].id
    /\ \A k \in (Len(sensor_data) + 1)..Len(sensor_data') :
           \A j \in 1..Len(sensor_data) : sensor_data'[k].id # sensor_data[j].id
    /\ \A i \in Slots :
           (HandlerStep(i) /\ req[i].kind = "infrastructure") =>
               /\ req'[i].outcome = "ok"
               /\ Len(infrastructure') = Len(infrastructure) + 1
               /\ infrastructure'[Len(infrastructure')] = req'[i].response
               /\ sensor_data' = sensor_data
    /\ \A i \in Slots :
           (HandlerStep(i) /\ req[i].kind = "sensor_data") =>
               /\ (\E k \in 1..Len(sensor_data) :
                       \A f \in SensorFields :
                           sensor_data[k][f] = req[i].model[f])
                  => req'[i].outcome = "ok"
               /\ req'[i].outcome = "ok" =>
                      /\ Len(sensor_data') = Len(sensor_data) + 1
                      /\ sensor_data'[Len(sensor_data')] = req'[i].response
                      /\ infrastructure' = infrastructure

C5_AppendOnly == [][C5_Step]_vars

\* C5 case: two asset rows with the same device_id and different ids, and
\* a reading stored as well.
C5_Witness ==
    /\ \E j, k \in 1..Len(infrastructure) :
           /\ j # k
           /\ infrastructure[j].device_id = infrastructure[k].device_id
           /\ infrastructure[j].id # infrastructure[k].id
    /\ Len(sensor_data) >= 1

\* C6: a generated payload holds exactly one reading per configured
\* measurement; a numeric reading lies within
\* [min - 0.05 (max - min), max + 0.05 (max - min)] (hundredths here), a
\* categorical one is a member of its configured set.
C6_ReadingsWithinBounds ==
    genCount > 0 =>
        /\ DOMAIN payload.readings = DOMAIN sim.sensors
        /\ \A s \in DOMAIN sim.sensors :
               LET cfg == sim.sensors[s]
                   v == payload.readings[s].value
               IN  IF "conditions" \in DOMAIN cfg
                   THEN \E k \in 1..Len(cfg.conditions) : cfg.conditions[k] = v
                   ELSE /\ 100 * cfg.min - 5 * (cfg.max - cfg.min) <= v
                        /\ v <= 100 * cfg.max + 5 * (cfg.max - cfg.min)

\* C6 case: on a later tick the temperature reading sits on the lower end
\* of its allowed interval, -20 - 0.05 * 70 = -23.50.
C6_Witness ==
    /\ genCount >= 2
    /\ payload.readings["temperature"].value = -2350

\* C7: a completed init_db leaves both tables present and empty,
\* sensor_data a hypertable on timestamp with a 1-day chunk interval, and
\* both hand-made indexes present; the rows it found are gone, and running
\* it again changes nothing.
C7_BootstrapResult ==
    bootStatus = "ok" =>
        /\ db.tables = MetadataTables
        /\ \A t \in MetadataTables : db.rows[t] = 0
        /\ db.hypertable = [column |-> "timestamp", chunk_days |-> 1]
        /\ {"idx_sensor_data_device_time", "idx_sensor_readings"}
               \subseteq db.indexes
        /\ init_db_result(db, "none") = db

\* C8: each pass of the loop makes one send_data call, which builds one new
\* payload and posts that payload once; after a send that returned False
\* the loop goes on to the next tick unless the bounded duration has
\* elapsed, and the next send posts a payload generated then.
C8_Step ==
    /\ (gPc = "send" /\ gPc' = "check") =>
           /\ postCount' = postCount + 1
           /\ genCount' = genCount + 1
           /\ postCount' = iteration
           /\ posted' = payload'
           /\ posted'.timestamp = clock
           /\ postCount >= 1 => posted'.timestamp > posted.timestamp
           /\ Len(sendResults') = iteration
    /\ (gPc = "check" /\ gPc' # "check") =>
           IF duration # 0 /\ clock >= duration
           THEN gPc' = "done"
           ELSE gPc' = "sleep" /\ iteration' = iteration + 1
    /\ (gPc = "sleep" /\ gPc' # "sleep") => gPc' = "send"
    /\ gPc = "done" => gPc' = "done"
    /\ gPc # "send" => (postCount' = postCount /\ posted' = posted)

C8_FailedSendContinues == [][C8_Step]_genVars

\* C8 case: the send of tick 1 failed and tick 2 has sent.
C8_Witness ==
    /\ gPc = "check"
    /\ iteration = 2
    /\ Len(sendResults) = 2
    /\ ~sendResults[1]

\* C9: the open sessions are exactly those of the invocations in progress,
\* one each and no two the same; no invocation commits more than once.
C9_SessionScoping ==
    /\ openSessions = { req[i].session : i \in ActiveSlots }
    /\ \A i, j \in ActiveSlots : i # j => req[i].session # req[j].session
    /\ Cardinality(openSessions) = Cardinality(ActiveSlots)
    /\ \A i \in Slots : req[i].commits <= 1

\* C9 case: all invocations are over, one of them after a commit the store
\* rejected, and no session is open.
C9_Witness ==
    /\ openSessions = {}
    /\ ActiveSlots = {}
    /\ sessionSeq >= 2
    /\ sensorSeq > Len(sensor_data) + 1

\* C10: a step in which an invocation fails changes neither table; a failed
\* invocation does nothing further but end, and no invocation commits twice.
C10_Step ==
    \A i \in Slots :
        /\ ( /\ req[i].pc # "responded"
             /\ req'[i].pc = "responded"
             /\ req'[i].outcome # "ok" )
           => /\ infrastructure' = infrastructure
              /\ sensor_data' = sensor_data
        /\ (req[i].pc = "responded" /\ req[i].outcome # "ok") =>
               \/ req'[i].pc = "idle"
               \/ (req'[i].pc = "responded" /\ req'[i].commits = req[i].commits
                   /\ req'[i].outcome = req[i].outcome)
        /\ req'[i].commits <= 1

C10_FailureLeavesStore == [][C10_Step]_vars

\* C10 case: with an asset stored, a createInfrastructure without the
\* required name has been refused.
C10_Witness ==
    /\ Len(infrastructure) >= 1
    /\ \E i \in Slots :
           /\ req[i].kind = "infrastructure"
           /\ req[i].outcome = "RequestValidationError"

====
